---- MODULE Spec2Model ----
(***************************************************************************)
(* picture-collection-tools: a model of the two scripts of the repository. *)
(*                                                                         *)
(*   index_pictures.py  walks a directory tree and keeps the catalog       *)
(*                      (.collection.db, table pictures) in step with it.  *)
(*   plot_growth.py     reads the catalog and derives the periodic and     *)
(*                      cumulative size series.                            *)
(*                                                                         *)
(* The catalog is modelled twice: db is what is durable on disk, view is   *)
(* what the open connection sees (db plus the uncommitted transaction).    *)
(* conn.commit() copies view to db; closing or losing the connection       *)
(* discards view.                                                          *)
(***************************************************************************)
EXTENDS Integers, Sequences, FiniteSets, TLC

VARIABLES
    \* ---- the world both scripts run in
    root_is_dir,        \* os.path.isdir(target_dir)
    fs,                 \* the tree: path -> file state
    db,                 \* durable rows of table pictures
    renderer,           \* whether matplotlib can be imported
    walk_order,         \* the order in which os.walk yields the files
    \* ---- index_pictures.main
    pc,                 \* position in main
    conn,               \* "unbound" | "open" | "closed"
    view,               \* rows as seen through conn
    existing_files,
    found_files,
    todo,               \* files os.walk has not yielded yet
    count,
    deleted_files,
    fault,              \* the sqlite3.Error caught ("none" if none)
    exit_code,          \* exit status of the process (-1 while it runs)
    raised,             \* exception that escaped main ("none" if none)
    reported,           \* messages printed
    \* ---- history of the indexer (read by no action's guard)
    runs,               \* scans started
    startDb,            \* db when the current scan connected
    prevCompleted,      \* the previous scan ran to its end without a fault
    change,             \* what happened to the tree since the previous scan
    skipped,            \* files whose size could not be read in this scan
    upserted,           \* rows written by INSERT OR REPLACE in this scan
    commits,            \* commits that succeeded in this scan
    pending,            \* upserts since the last successful commit
    \* ---- plot_growth.main
    ppc,                \* position in main
    args,               \* parsed command line
    pconn,
    rows,
    rowsTodo,
    date_before_dt,
    date_after_dt,
    growth_data,
    all_directories,
    sorted_keys,
    sorted_directories,
    periodic_data,
    cumulative_data,
    charts,             \* what plot_chart handed to the renderer
    printed,            \* lines written to standard output
    kept,               \* history: rows that reached the accumulation
    pfault,             \* the sqlite3.Error caught by plot_growth
    pexit,              \* exit status of plot_growth
    praised             \* exception that escaped plot_growth.main

worldVars == <<root_is_dir, fs, db, renderer, walk_order>>
indexVars == <<pc, conn, view, existing_files, found_files, todo, count,
               deleted_files, fault, exit_code, raised, reported>>
histVars  == <<runs, startDb, prevCompleted, change, skipped,
               upserted, commits, pending>>
plotVars  == <<ppc, args, pconn, rows, rowsTodo, date_before_dt,
               date_after_dt, growth_data, all_directories, sorted_keys,
               sorted_directories, periodic_data, cumulative_data, charts,
               printed, kept, pfault, pexit, praised>>
vars == <<worldVars, indexVars, histVars, plotVars>>

-----------------------------------------------------------------------------
(* Bounds of the model.                                                    *)

\* paths of the small tree
MaxPaths == 3
\* versions of a file's content (size and metadata change together): a file
\* starts at version 1 and a later edit may give it any version
MaxVariants == 2
\* scans of the same root in one behaviour
MaxRuns == 2
\* files of the large tree used to exercise the periodic commit
MaxBatchFiles == 205
\* paths a catalog read by plot_growth may hold
MaxPlotPaths == 3

-----------------------------------------------------------------------------
(* Values.                                                                 *)

None == [shape |-> "None"]

\* A date text: <y><sep><mo><sep><d>, then nothing ("none"), " HH:00:00"
\* ("time") or "THH:00:00.000000Z" ("iso").
DateText(sep, y, mo, d, tail, h) ==
    [shape |-> "date", sep |-> sep, y |-> y, mo |-> mo, d |-> d,
     tail |-> tail, h |-> h]
EmptyText == [shape |-> "empty"]
JunkText  == [shape |-> "junk"]

Path(dir, name, ext) == [dir |-> dir, name |-> name, ext |-> ext]

Row(p, s, d) == [file_path |-> p, file_size |-> s, date_taken |-> d]

Keys(table) == {r.file_path : r \in table}
RowsOf(table, p) == {r \in table : r.file_path = p}

Absent     == [present |-> FALSE, readable |-> FALSE, variant |-> 0]
Unreadable == [present |-> TRUE,  readable |-> FALSE, variant |-> 0]
Content(v) == [present |-> TRUE,  readable |-> TRUE,  variant |-> v]

FileStates == {Absent, Unreadable} \cup {Content(v) : v \in 1..MaxVariants}

Files(tree) == {p \in DOMAIN tree : tree[p].present}

-----------------------------------------------------------------------------
(* index_pictures.py: helpers.                                             *)

image_extensions == {".jpg", ".jpeg", ".png", ".tiff", ".bmp", ".gif", ".webp"}
video_extensions == {".mp4", ".mov", ".avi", ".mkv", ".3gp"}

\* str.lower() on the extensions the model uses
Lower(ext) ==
    CASE ext = ".JPG"  -> ".jpg"
      [] ext = ".Jpeg" -> ".jpeg"
      [] ext = ".MOV"  -> ".mov"
      [] ext = ".MP4"  -> ".mp4"
      [] ext = ".TXT"  -> ".txt"
      [] OTHER         -> ext

\* a plausible slip: the extension is compared as spelled
RecognizedAsSpelled(ext) ==
    ext \in image_extensions \/ ext \in video_extensions

\* ext = os.path.splitext(file)[1].lower(); ext in images or ext in videos
Recognized(ext) ==
    Lower(ext) \in image_extensions \/ Lower(ext) \in video_extensions

\* os.path.getsize of a readable file
getsize(p, st) == (st.variant * 1048576) + (p.name * 512)

\* img.getexif(): tag -> text; the empty function when there is no EXIF
Exif(p, st) ==
    CASE st.variant = 1 ->
           (36867 :> DateText(":", 2022 + (p.name % 2), 1 + (p.name % 3), 1, "time", 10)
            @@ 306 :> DateText(":", 2024, 6, 1, "time", 0))
      [] st.variant = 2 ->
           (306 :> DateText(":", 2023, 2, 1, "time", 0))
      [] OTHER -> <<>>

get_date_taken(p, st) ==
    LET exif == Exif(p, st) IN
    IF DOMAIN exif = {} THEN None
    ELSE IF 36867 \in DOMAIN exif THEN exif[36867]
    ELSE IF 306 \in DOMAIN exif THEN exif[306]
    ELSE None

\* ffprobe -print_format json -show_format -show_streams
Probe(p, st) ==
    CASE st.variant = 1 ->
           [returncode |-> 0,
            format  |-> ("creation_time" :> DateText("-", 2023, 1, 1, "iso", 0)),
            streams |-> << <<>> >>]
      [] st.variant = 2 ->
           [returncode |-> 0,
            format  |-> <<>>,
            streams |-> << <<>>,
                           ("creation_time" :> DateText("-", 2023, 3, 2, "time", 9)) >>]
      [] OTHER ->
           [returncode |-> 1, format |-> <<>>, streams |-> <<>>]

RECURSIVE FirstStreamTime(_)
FirstStreamTime(streams) ==
    IF streams = <<>> THEN None
    ELSE IF "creation_time" \in DOMAIN Head(streams)
         THEN Head(streams)["creation_time"]
         ELSE FirstStreamTime(Tail(streams))

get_video_date_taken(p, st) ==
    LET result == Probe(p, st) IN
    IF result.returncode # 0 THEN None
    ELSE IF "creation_time" \in DOMAIN result.format
         THEN result.format["creation_time"]
         ELSE FirstStreamTime(result.streams)

\* date_taken of a file whose size was read
ExtractDate(p, st) ==
    IF Lower(p.ext) \in image_extensions
    THEN get_date_taken(p, st)
    ELSE get_video_date_taken(p, st)

\* INSERT OR REPLACE INTO pictures: file_path is the primary key
InsertOrReplace(table, r) ==
    {x \in table : x.file_path # r.file_path} \cup {r}

\* DELETE FROM pictures WHERE file_path = ?  for each path of paths
DeleteRows(table, paths) == {x \in table : x.file_path \notin paths}

\* a plausible slip: only files that were indexed count as found
FoundOnlyIfRead(found, p, st) ==
    IF st.readable THEN found \cup {p} ELSE found

\* found_files.add(full_path), before the size is read
FoundAdd(found, p, st) == found \cup {p}

\* a plausible slip: the intersection taken for the difference
DeletedStillThere(existing, found) == existing \cap found

\* a plausible slip: every path stored before the scan is pruned
DeletedAllStored(existing, found) == existing

\* deleted_files = existing_files - found_files
DeletedFiles(existing, found) == existing \ found

BatchSize == 100

\* a plausible slip: the periodic commit never happens
NeverCommit(n) == FALSE

\* if count % 100 == 0
ShouldCommit(n) == n % BatchSize = 0

-----------------------------------------------------------------------------
(* The trees.                                                              *)

SmallExt(i) ==
    CASE i % 4 = 1 -> ".JPG"
      [] i % 4 = 2 -> ".mov"
      [] i % 4 = 3 -> ".txt"
      [] OTHER     -> ".jpg"

SmallPaths == {Path(IF i % 2 = 1 THEN "A" ELSE ".", i, SmallExt(i)) : i \in 1..MaxPaths}

BatchExt(i) ==
    CASE i % 97 = 96 -> ".txt"
      [] i % 3 = 0  -> ".MP4"
      [] OTHER      -> ".jpg"

BatchPath(i) == Path(IF i % 2 = 1 THEN "A" ELSE ".", i, BatchExt(i))

\* The files os.walk may yield next out of S.  The order of a directory
\* listing is arbitrary ("any"); the large tree is walked by ascending or
\* by descending name.
WalkNext(S, order) ==
    LET names == {p.name : p \in S} IN
    CASE order = "asc"  -> {p \in S : \A n \in names : p.name <= n}
      [] order = "desc" -> {p \in S : \A n \in names : p.name >= n}
      [] OTHER          -> S

\* the large tree: file 50 cannot be read, file 0 has been removed since
\* the scan that wrote the catalog
BatchTree(n) ==
    [p \in {BatchPath(i) : i \in 0..n} |->
        IF p.name = 0 THEN Absent
        ELSE IF p.name = 50 THEN Unreadable
        ELSE Content(1)]

\* the catalog an earlier scan of the large tree left
BatchCatalog ==
    {Row(BatchPath(0), 4096, None),
     Row(BatchPath(1), 4096, None),
     Row(BatchPath(50), 4096, None)}

-----------------------------------------------------------------------------
(* plot_growth.py at rest (while the indexer runs).                        *)

NoArgs == [group_by |-> "month", date_before |-> None, date_after |-> None,
           group_dirs |-> FALSE]

PlotAtRest ==
    /\ ppc = "off"
    /\ args = NoArgs
    /\ pconn = "unbound"
    /\ rows = {}
    /\ rowsTodo = {}
    /\ date_before_dt = None
    /\ date_after_dt = None
    /\ growth_data = <<>>
    /\ all_directories = {}
    /\ sorted_keys = <<>>
    /\ sorted_directories = <<>>
    /\ periodic_data = <<>>
    /\ cumulative_data = <<>>
    /\ charts = <<>>
    /\ printed = <<>>
    /\ kept = {}
    /\ pfault = "none"
    /\ pexit = -1
    /\ praised = "none"

-----------------------------------------------------------------------------
(* index_pictures.main                                                     *)

IndexAtStart ==
    /\ pc = "start"
    /\ conn = "unbound"
    /\ view = {}
    /\ existing_files = {}
    /\ found_files = {}
    /\ todo = {}
    /\ count = 0
    /\ deleted_files = {}
    /\ fault = "none"
    /\ exit_code = -1
    /\ raised = "none"
    /\ reported = {}
    /\ skipped = {}
    /\ upserted = {}
    /\ commits = 0
    /\ pending = 0

\* The first scan of a small tree: the store is absent, so the catalog is
\* empty.  A root that is not a directory holds no files.
Init ==
    /\ root_is_dir \in BOOLEAN
    /\ fs \in [SmallPaths -> {Absent, Unreadable, Content(1)}]
    /\ (~root_is_dir => Files(fs) = {})
    /\ db = {}
    /\ renderer = TRUE
    /\ walk_order = "any"
    /\ IndexAtStart
    /\ runs = 1
    /\ startDb = {}
    /\ prevCompleted = FALSE
    /\ change = [kind |-> "first"]
    /\ PlotAtRest

\* A scan of a large tree whose catalog an earlier scan wrote.
InitBatch ==
    /\ root_is_dir = TRUE
    /\ \E n \in {BatchSize + 1, MaxBatchFiles} : fs = BatchTree(n)
    /\ db = BatchCatalog
    /\ renderer = TRUE
    /\ walk_order \in {"asc", "desc"}
    /\ IndexAtStart
    /\ runs = 1
    /\ startDb = BatchCatalog
    /\ prevCompleted = TRUE
    /\ change = [kind |-> "remove", path |-> BatchPath(0)]
    /\ PlotAtRest

\* lines 94-96: the root is validated before any store access
BadRoot ==
    /\ pc = "start"
    /\ ~root_is_dir
    /\ reported' = reported \cup {"bad_root"}
    /\ exit_code' = 1
    /\ pc' = "done"
    /\ UNCHANGED <<worldVars, conn, view, existing_files, found_files, todo,
                   count, deleted_files, fault, raised, histVars, plotVars>>

\* lines 101-122: connect, create the table, load the stored paths
Connect ==
    /\ pc = "start"
    /\ root_is_dir
    /\ conn' = "open"
    /\ view' = db
    /\ existing_files' = Keys(db)
    /\ found_files' = {}
    /\ count' = 0
    /\ todo' = Files(fs)
    /\ startDb' = db
    /\ reported' = reported \cup {"database_path"}
    /\ pc' = "walk"
    /\ UNCHANGED <<worldVars, deleted_files, fault, exit_code, raised, runs,
                   prevCompleted, change, skipped, upserted, commits, pending,
                   plotVars>>

\* line 102: sqlite3.connect raises; conn is never assigned
ConnectFails ==
    /\ pc = "start"
    /\ root_is_dir
    /\ fault' = "connect"
    /\ reported' = reported \cup {"database_path"}
    /\ pc' = "except"
    /\ UNCHANGED <<worldVars, conn, view, existing_files, found_files, todo,
                   count, deleted_files, exit_code, raised, histVars, plotVars>>

\* lines 103-116: the connection opens, a statement on it raises
ExecuteFails ==
    /\ pc = "start"
    /\ root_is_dir
    /\ conn' = "open"
    /\ view' = db
    /\ fault' = "execute"
    /\ reported' = reported \cup {"database_path"}
    /\ pc' = "except"
    /\ UNCHANGED <<worldVars, existing_files, found_files, todo, count,
                   deleted_files, exit_code, raised, histVars, plotVars>>

\* lines 124-150: one file of the walk
Visit(f) ==
    /\ pc = "walk"
    /\ f \in todo
    /\ todo' = todo \ {f}
    /\ LET st == fs[f] IN
       IF ~Recognized(f.ext)
       THEN UNCHANGED <<db, view, found_files, count, fault, reported, pc,
                        skipped, upserted, commits, pending>>
       ELSE
         /\ found_files' = FoundAdd(found_files, f, st)
         /\ IF ~st.readable
            THEN /\ reported' = reported \cup {"could_not_read_size"}
                 /\ skipped' = skipped \cup {f}
                 /\ UNCHANGED <<db, view, count, fault, pc, upserted,
                                commits, pending>>
            ELSE LET r == Row(f, getsize(f, st), ExtractDate(f, st)) IN
                 /\ view' = InsertOrReplace(view, r)
                 /\ count' = count + 1
                 /\ upserted' = upserted \cup {r}
                 /\ skipped' = skipped
                 /\ IF ShouldCommit(count')
                    THEN \E ok \in BOOLEAN :
                           IF ok
                           THEN /\ db' = view'
                                /\ commits' = commits + 1
                                /\ pending' = 0
                                /\ reported' = reported \cup {"indexed_n"}
                                /\ UNCHANGED <<fault, pc>>
                           ELSE /\ fault' = "commit"
                                /\ pc' = "except"
                                /\ pending' = pending + 1
                                /\ reported' = reported \cup {"indexed_n"}
                                /\ UNCHANGED <<db, commits>>
                    ELSE /\ pending' = pending + 1
                         /\ UNCHANGED <<db, fault, pc, commits, reported>>
    /\ UNCHANGED <<root_is_dir, fs, renderer, walk_order, conn, existing_files,
                   deleted_files, exit_code, raised, runs, startDb,
                   prevCompleted, change, plotVars>>

\* lines 152-153: the commit that ends the walk
EndWalk ==
    /\ pc = "walk"
    /\ todo = {}
    /\ \E ok \in BOOLEAN :
         IF ok
         THEN /\ db' = view
              /\ commits' = commits + 1
              /\ pending' = 0
              /\ reported' = reported \cup {"done"}
              /\ pc' = "prune"
              /\ UNCHANGED fault
         ELSE /\ fault' = "commit"
              /\ pc' = "except"
              /\ UNCHANGED <<db, commits, pending, reported>>
    /\ UNCHANGED <<root_is_dir, fs, renderer, walk_order, conn, view, existing_files,
                   found_files, todo, count, deleted_files, exit_code, raised,
                   runs, startDb, prevCompleted, change, skipped, upserted,
                   plotVars>>

\* lines 155-164: prune the entries of files that were not found
Prune ==
    /\ pc = "prune"
    /\ deleted_files' = DeletedFiles(existing_files, found_files)
    /\ IF deleted_files' # {}
       THEN /\ view' = DeleteRows(view, deleted_files')
            /\ \E ok \in BOOLEAN :
                 IF ok
                 THEN /\ db' = view'
                      /\ commits' = commits + 1
                      /\ reported' = reported \cup {"found_deleted", "removed"}
                      /\ pc' = "finally"
                      /\ UNCHANGED fault
                 ELSE /\ fault' = "commit"
                      /\ reported' = reported \cup {"found_deleted"}
                      /\ pc' = "except"
                      /\ UNCHANGED <<db, commits>>
       ELSE /\ reported' = reported \cup {"no_deleted"}
            /\ pc' = "finally"
            /\ UNCHANGED <<db, view, commits, fault>>
    /\ UNCHANGED <<root_is_dir, fs, renderer, walk_order, conn, existing_files,
                   found_files, todo, count, exit_code, raised, runs, startDb,
                   prevCompleted, change, skipped, upserted, pending, plotVars>>

\* lines 166-167: except sqlite3.Error
Except ==
    /\ pc = "except"
    /\ reported' = reported \cup {"sqlite_error"}
    /\ pc' = "finally"
    /\ UNCHANGED <<worldVars, conn, view, existing_files, found_files, todo,
                   count, deleted_files, fault, exit_code, raised, histVars,
                   plotVars>>

\* lines 168-170: finally: if conn: conn.close().  Reading a local that was
\* never assigned raises UnboundLocalError, which nothing catches.  Closing
\* discards what was not committed.
Finally ==
    /\ pc = "finally"
    /\ IF conn = "unbound"
       THEN /\ raised' = "UnboundLocalError"
            /\ exit_code' = 1
            /\ UNCHANGED <<conn, view>>
       ELSE /\ conn' = "closed"
            /\ view' = {}
            /\ exit_code' = 0
            /\ UNCHANGED raised
    /\ pc' = "done"
    /\ UNCHANGED <<worldVars, existing_files, found_files, todo, count,
                   deleted_files, fault, reported, histVars, plotVars>>

\* The process is interrupted from outside (section 5: cancellation is a
\* process signal).  Its locals are gone and the open transaction is lost:
\* db is what was committed, pending is how many upserts were lost.
Kill ==
    /\ pc \in {"walk", "prune", "except", "finally"}
    /\ pc' = "killed"
    /\ conn' = "unbound"
    /\ view' = {}
    /\ existing_files' = {}
    /\ found_files' = {}
    /\ todo' = {}
    /\ deleted_files' = {}
    /\ skipped' = {}
    /\ upserted' = {}
    /\ reported' = {}
    /\ fault' = "none"
    /\ UNCHANGED <<worldVars, count, exit_code, raised, runs, startDb,
                   prevCompleted, change, commits, pending, plotVars>>

\* a fresh process: every local of main is as at its first line
FreshProcess ==
    /\ pc' = "start"
    /\ conn' = "unbound"
    /\ view' = {}
    /\ existing_files' = {}
    /\ found_files' = {}
    /\ todo' = {}
    /\ count' = 0
    /\ deleted_files' = {}
    /\ fault' = "none"
    /\ exit_code' = -1
    /\ raised' = "none"
    /\ reported' = {}
    /\ skipped' = {}
    /\ upserted' = {}
    /\ commits' = 0
    /\ pending' = 0

Completed ==
    pc = "done" /\ fault = "none" /\ raised = "none" /\ exit_code = 0

\* The tree between two scans: untouched, one file removed, or one path
\* given another state.
TreeChanges ==
    {[kind |-> "none"]}
    \cup {[kind |-> "remove", path |-> p] : p \in Files(fs)}
    \cup {[kind |-> "other", path |-> p, to |-> s] :
            p \in DOMAIN fs, s \in FileStates \ {Absent}}

ApplyChange(tree, c) ==
    CASE c.kind = "remove" -> [tree EXCEPT ![c.path] = Absent]
      [] c.kind = "other"  -> [tree EXCEPT ![c.path] = c.to]
      [] OTHER             -> tree

\* the script is run again on the same root
NextRun ==
    /\ pc \in {"done", "killed"}
    /\ root_is_dir
    /\ runs < MaxRuns
    /\ \E c \in TreeChanges :
         /\ (c.kind = "other" => fs[c.path] # c.to)
         /\ change' = c
         /\ fs' = ApplyChange(fs, c)
    /\ runs' = runs + 1
    /\ prevCompleted' = Completed
    /\ FreshProcess
    /\ UNCHANGED <<root_is_dir, db, renderer, walk_order, startDb, plotVars>>

Next ==
    \/ BadRoot
    \/ Connect
    \/ ConnectFails
    \/ ExecuteFails
    \/ \E f \in WalkNext(todo, walk_order) : Visit(f)
    \/ EndWalk
    \/ Prune
    \/ Except
    \/ Finally
    \/ Kill
    \/ NextRun

Spec == Init /\ [][Next]_vars

\* one scan of the large tree, the walk taken from either end
NextBatch ==
    \/ Connect
    \/ ConnectFails
    \/ ExecuteFails
    \/ \E f \in WalkNext(todo, walk_order) : Visit(f)
    \/ EndWalk
    \/ Prune
    \/ Except
    \/ Finally
    \/ Kill

SpecBatch == InitBatch /\ [][NextBatch]_vars

-----------------------------------------------------------------------------
(* plot_growth.py: helpers.                                                *)

\* the formats of parse_date, in its order
Formats == << [sep |-> ":", tail |-> "time"],
              [sep |-> "-", tail |-> "time"],
              [sep |-> "-", tail |-> "none"] >>

ValueError == [shape |-> "ValueError"]

DaysIn(y, mo) ==
    CASE mo \in {4, 6, 9, 11} -> 30
      [] mo = 2 -> IF (y % 4 = 0 /\ y % 100 # 0) \/ y % 400 = 0 THEN 29 ELSE 28
      [] OTHER -> 31

\* datetime.strptime(text, fmt): the text must have the format's shape and
\* name a real date; the result has no time of day when the format has none
strptime(text, fmt) ==
    IF /\ text.shape = "date"
       /\ text.sep = fmt.sep
       /\ text.tail = fmt.tail
       /\ text.y >= 1 /\ text.y <= 9999
       /\ text.mo >= 1 /\ text.mo <= 12
       /\ text.d >= 1 /\ text.d <= DaysIn(text.y, text.mo)
       /\ text.h >= 0 /\ text.h <= 23
    THEN [shape |-> "datetime", y |-> text.y, mo |-> text.mo, d |-> text.d,
          h |-> IF fmt.tail = "time" THEN text.h ELSE 0]
    ELSE ValueError

RECURSIVE TryFormats(_, _)
TryFormats(text, fmts) ==
    IF fmts = <<>> THEN None
    ELSE LET r == strptime(text, Head(fmts)) IN
         IF r # ValueError THEN r ELSE TryFormats(text, Tail(fmts))

parse_date(date_str) == TryFormats(date_str, Formats)

\* dt1 < dt2 on datetime objects
DtLess(a, b) ==
    \/ a.y < b.y
    \/ a.y = b.y /\ a.mo < b.mo
    \/ a.y = b.y /\ a.mo = b.mo /\ a.d < b.d
    \/ a.y = b.y /\ a.mo = b.mo /\ a.d = b.d /\ a.h < b.h

\* truth value of a command-line string: given and not empty
Truthy(a) == a # None /\ a # EmptyText

\* a plausible slip: the bounds compared with > and <, letting the boundary in
DroppedInclusive(dt, before, after) ==
    \/ before # None /\ DtLess(before, dt)
    \/ after # None /\ DtLess(dt, after)

\* lines 99-102: the two continue statements
Dropped(dt, before, after) ==
    \/ before # None /\ ~DtLess(dt, before)
    \/ after # None /\ ~DtLess(after, dt)

\* dt.strftime("%Y") or dt.strftime("%Y-%m"): the fields of the label, most
\* significant first (the label is fixed-width and zero-padded)
TimeKey(dt, group_by) ==
    IF group_by = "year" THEN <<dt.y>> ELSE <<dt.y, dt.mo>>

\* label1 < label2 as strings
KeyLess(a, b) ==
    \/ a[1] < b[1]
    \/ a[1] = b[1] /\ Len(a) > 1 /\ a[2] < b[2]

\* lines 109-121: the group of a row
Directory(file_path, group_dirs) ==
    IF group_dirs
    THEN IF file_path.dir = "." THEN "Root" ELSE file_path.dir
    ELSE "Total"

\* the place of a directory label in the order of strings
DirRank(d) ==
    CASE d = "A" -> 1 [] d = "B" -> 2 [] d = "Root" -> 3 [] d = "Total" -> 4
      [] OTHER -> 5

DirLess(a, b) == DirRank(a) < DirRank(b)

RECURSIVE SortedKeys(_)
SortedKeys(S) ==
    IF S = {} THEN <<>>
    ELSE LET m == CHOOSE x \in S : \A y \in S : x = y \/ KeyLess(x, y) IN
         <<m>> \o SortedKeys(S \ {m})

RECURSIVE SortedDirs(_)
SortedDirs(S) ==
    IF S = {} THEN <<>>
    ELSE LET m == CHOOSE x \in S : \A y \in S : x = y \/ DirLess(x, y) IN
         <<m>> \o SortedDirs(S \ {m})

\* dict.get(k, default)
GetOr(f, k, default) == IF k \in DOMAIN f THEN f[k] ELSE default

\* line 123-127: growth_data[key][directory] += size
Accumulate(gd, key, directory, size) ==
    LET inner == GetOr(gd, key, <<>>)
        upd   == (directory :> (GetOr(inner, directory, 0) + size)) @@ inner
    IN  (key :> upd) @@ gd

\* bytes / (1024 * 1024): a float that is an exact multiple of 2^-20 (exact
\* for sizes below 2^53 bytes), kept as the fraction num / den
MB(bytes) == [num |-> bytes, den |-> 1024 * 1024]

\* lines 142-146
PeriodicSeries(gd, keys, d) ==
    [i \in 1..Len(keys) |-> MB(GetOr(gd[keys[i]], d, 0))]

\* current_totals[d] after the first i keys
RECURSIVE RunningTotal(_, _, _, _)
RunningTotal(gd, keys, d, i) ==
    IF i = 0 THEN 0
    ELSE RunningTotal(gd, keys, d, i - 1) + GetOr(gd[keys[i]], d, 0)

\* a plausible slip: the total is not carried from one key to the next
CumulativeNotCarried(gd, keys, d) ==
    [i \in 1..Len(keys) |-> MB(GetOr(gd[keys[i]], d, 0))]

\* lines 150-157
CumulativeSeries(gd, keys, d) ==
    [i \in 1..Len(keys) |-> MB(RunningTotal(gd, keys, d, i))]

\* sum(data[d][i] for d in dirs), on exact multiples of 2^-20
RECURSIVE SumAt(_, _, _)
SumAt(data, dirs, i) ==
    IF dirs = <<>> THEN 0
    ELSE data[Head(dirs)][i].num + SumAt(data, Tail(dirs), i)

\* f"{total:.2f}": the hundredths of num / 2^20, rounded half to even
Fmt2(num) ==
    LET den == 1024 * 1024
        q   == (num * 100) \div den
        r   == (num * 100) % den
    IN  IF 2 * r > den THEN q + 1
        ELSE IF 2 * r = den THEN q + (q % 2)
        ELSE q

Line(what, key, hundredths) ==
    [kind |-> "line", what |-> what, key |-> key, value |-> hundredths]
Message(what) == [kind |-> "message", what |-> what]

\* a plausible slip: only the first group's series is printed
LinesOfFirstGroup(what, data, keys, dirs) ==
    [i \in 1..Len(keys) |-> Line(what, keys[i], Fmt2(data[Head(dirs)][i].num))]

\* lines 203-205 and 208-210: one line per key, the groups added up
LinesOfTotals(what, data, keys, dirs) ==
    [i \in 1..Len(keys) |-> Line(what, keys[i], Fmt2(SumAt(data, dirs, i)))]

\* plot_chart: the bars handed to the renderer, one series per group when
\* grouping, else the series of "Total"
RECURSIVE StackedBars(_, _, _)
StackedBars(data, dirs, bottom) ==
    IF dirs = <<>> THEN <<>>
    ELSE LET values == data[Head(dirs)] IN
         << [label |-> Head(dirs), values |-> values, bottom |-> bottom] >>
         \o StackedBars(data, Tail(dirs),
                        [i \in DOMAIN bottom |-> bottom[i] + values[i].num])

plot_chart(data, keys, dirs, group_dirs, filename) ==
    [filename |-> filename,
     x |-> keys,
     bars |-> IF group_dirs
              THEN StackedBars(data, dirs, [i \in 1..Len(keys) |-> 0])
              ELSE << [label |-> "Total", values |-> data["Total"],
                       bottom |-> [i \in 1..Len(keys) |-> 0]] >>]

-----------------------------------------------------------------------------
(* The catalogs and command lines plot_growth is run on.                   *)

PlotPath(i) == Path(IF i % 3 = 0 THEN "." ELSE IF i % 4 = 0 THEN "B" ELSE "A", i, ".jpg")

\* 5243 bytes are a little over 0.005 MB
PlotSize(i) ==
    CASE i % 4 = 1 -> 1024 * 1024
      [] i % 4 = 2 -> 5243
      [] i % 4 = 3 -> 2 * 1024 * 1024
      [] OTHER     -> 1024 * 1024

\* the dates of 2023-01-01T00:00:00, the instant of the filter bounds
Boundary == DateText("-", 2023, 1, 1, "none", 0)

\* the date_taken a row of path i may hold
PlotDates(i) ==
    CASE i % 3 = 1 ->
           {DateText(":", 2023, 1, 1, "time", 0),
            DateText("-", 2023, 2, 1, "none", 0),
            DateText("-", 2023, 1, 1, "iso", 0)}
      [] i % 3 = 2 ->
           {DateText(":", 2023, 1, 1, "time", 10),
            DateText("-", 2022, 12, 31, "time", 23),
            DateText(":", 0, 0, 0, "time", 0)}
      [] OTHER ->
           {Boundary, None, EmptyText}

\* a row of path i, or no row
PlotRows(i) ==
    {{}} \cup {{Row(PlotPath(i), PlotSize(i), d)} : d \in PlotDates(i)}

RECURSIVE Catalogs(_)
Catalogs(n) ==
    IF n = 0 THEN {{}}
    ELSE {c \cup r : c \in Catalogs(n - 1), r \in PlotRows(n)}

ArgsSet ==
    [group_by    : {"month", "year"},
     date_before : {None, Boundary, JunkText, EmptyText},
     date_after  : {None, Boundary, JunkText},
     group_dirs  : BOOLEAN]

InitPlot ==
    /\ root_is_dir \in BOOLEAN
    /\ fs = <<>>
    /\ db \in Catalogs(MaxPlotPaths)
    /\ (~root_is_dir => db = {})
    /\ renderer \in BOOLEAN
    /\ walk_order = "any"
    /\ IndexAtStart
    /\ runs = 0
    /\ startDb = {}
    /\ prevCompleted = FALSE
    /\ change = [kind |-> "first"]
    /\ ppc = "start"
    /\ args \in ArgsSet
    /\ pconn = "unbound"
    /\ rows = {}
    /\ rowsTodo = {}
    /\ date_before_dt = None
    /\ date_after_dt = None
    /\ growth_data = <<>>
    /\ all_directories = {}
    /\ sorted_keys = <<>>
    /\ sorted_directories = <<>>
    /\ periodic_data = <<>>
    /\ cumulative_data = <<>>
    /\ charts = <<>>
    /\ printed = <<>>
    /\ kept = {}
    /\ pfault = "none"
    /\ pexit = -1
    /\ praised = "none"

-----------------------------------------------------------------------------
(* plot_growth.main                                                        *)

\* lines 56-58: the database file is not there
PlotNoDatabase ==
    /\ ppc = "start"
    /\ ~root_is_dir
    /\ printed' = Append(printed, Message("database_not_found"))
    /\ pexit' = 1
    /\ ppc' = "done"
    /\ UNCHANGED <<worldVars, indexVars, histVars, args, pconn, rows, rowsTodo,
                   date_before_dt, date_after_dt, growth_data, all_directories,
                   sorted_keys, sorted_directories, periodic_data,
                   cumulative_data, charts, kept, pfault, praised>>

\* lines 60-62, 212-218: sqlite3.connect raises; the handler prints, and the
\* finally clause reads conn, which was never assigned
PlotConnectFails ==
    /\ ppc = "start"
    /\ root_is_dir
    /\ pfault' = "connect"
    /\ printed' = Append(printed, Message("sqlite_error"))
    /\ praised' = "UnboundLocalError"
    /\ pexit' = 1
    /\ ppc' = "done"
    /\ UNCHANGED <<worldVars, indexVars, histVars, args, pconn, rows, rowsTodo,
                   date_before_dt, date_after_dt, growth_data, all_directories,
                   sorted_keys, sorted_directories, periodic_data,
                   cumulative_data, charts, kept>>

\* lines 60-71: connect and query; no dated row ends the run
PlotQuery ==
    /\ ppc = "start"
    /\ root_is_dir
    /\ rows' = {r \in db : r.date_taken # None}
    /\ IF rows' = {}
       THEN /\ printed' = Append(printed, Message("no_pictures_with_date"))
            /\ pconn' = "closed"
            /\ pexit' = 0
            /\ ppc' = "done"
            /\ UNCHANGED rowsTodo
       ELSE /\ pconn' = "open"
            /\ rowsTodo' = rows'
            /\ ppc' = "validate"
            /\ UNCHANGED <<printed, pexit>>
    /\ UNCHANGED <<worldVars, indexVars, histVars, args, date_before_dt,
                   date_after_dt, growth_data, all_directories, sorted_keys,
                   sorted_directories, periodic_data, cumulative_data, charts,
                   kept, pfault, praised>>

\* lines 78-94: the filter dates; sys.exit(1) leaves through the finally
\* clause, which closes the connection again
PlotValidate ==
    /\ ppc = "validate"
    /\ LET before == IF Truthy(args.date_before)
                     THEN strptime(args.date_before, Formats[3]) ELSE None
           after  == IF Truthy(args.date_after)
                     THEN strptime(args.date_after, Formats[3]) ELSE None
       IN
       IF before = ValueError
       THEN /\ printed' = Append(printed, Message("invalid_date_before"))
            /\ pconn' = "closed"
            /\ pexit' = 1
            /\ ppc' = "done"
            /\ UNCHANGED <<date_before_dt, date_after_dt>>
       ELSE IF after = ValueError
       THEN /\ date_before_dt' = before
            /\ printed' = Append(printed, Message("invalid_date_after"))
            /\ pconn' = "closed"
            /\ pexit' = 1
            /\ ppc' = "done"
            /\ UNCHANGED date_after_dt
       ELSE /\ date_before_dt' = before
            /\ date_after_dt' = after
            /\ ppc' = "loop"
            /\ UNCHANGED <<printed, pconn, pexit>>
    /\ UNCHANGED <<worldVars, indexVars, histVars, args, rows, rowsTodo,
                   growth_data, all_directories, sorted_keys,
                   sorted_directories, periodic_data, cumulative_data, charts,
                   kept, pfault, praised>>

\* lines 96-127: one row of the loop
PlotRow(r) ==
    /\ ppc = "loop"
    /\ r \in rowsTodo
    /\ rowsTodo' = rowsTodo \ {r}
    /\ LET dt == parse_date(r.date_taken) IN
       IF dt = None \/ Dropped(dt, date_before_dt, date_after_dt)
       THEN UNCHANGED <<growth_data, all_directories, kept>>
       ELSE LET key == TimeKey(dt, args.group_by)
                directory == Directory(r.file_path, args.group_dirs)
            IN /\ growth_data' = Accumulate(growth_data, key, directory, r.file_size)
               /\ all_directories' = all_directories \cup {directory}
               /\ kept' = kept \cup {r}
    /\ UNCHANGED <<worldVars, indexVars, histVars, ppc, args, pconn, rows,
                   date_before_dt, date_after_dt, sorted_keys,
                   sorted_directories, periodic_data, cumulative_data, charts,
                   printed, pfault, pexit, praised>>

\* lines 129-157: nothing kept ends the run; else sort and build the series
PlotSeries ==
    /\ ppc = "loop"
    /\ rowsTodo = {}
    /\ IF DOMAIN growth_data = {}
       THEN /\ printed' = Append(printed, Message("no_data_after_filtering"))
            /\ pconn' = "closed"
            /\ pexit' = 0
            /\ ppc' = "done"
            /\ UNCHANGED <<sorted_keys, sorted_directories, periodic_data,
                           cumulative_data>>
       ELSE /\ sorted_keys' = SortedKeys(DOMAIN growth_data)
            /\ sorted_directories' = SortedDirs(all_directories)
            /\ periodic_data' =
                 [d \in all_directories |->
                    PeriodicSeries(growth_data, sorted_keys', d)]
            /\ cumulative_data' =
                 [d \in all_directories |->
                    CumulativeSeries(growth_data, sorted_keys', d)]
            /\ ppc' = "output"
            /\ UNCHANGED <<printed, pconn, pexit>>
    /\ UNCHANGED <<worldVars, indexVars, histVars, args, rows, rowsTodo,
                   date_before_dt, date_after_dt, growth_data, all_directories,
                   charts, kept, pfault, praised>>

\* lines 160-197, 216-218: matplotlib is there
PlotCharts ==
    /\ ppc = "output"
    /\ renderer
    /\ charts' = << plot_chart(cumulative_data, sorted_keys, sorted_directories,
                               args.group_dirs, "collection_growth.png"),
                    plot_chart(periodic_data, sorted_keys, sorted_directories,
                               args.group_dirs, "collection_monthly_size.png") >>
    /\ printed' = printed \o << Message("chart_saved"), Message("chart_saved") >>
    /\ pconn' = "closed"
    /\ pexit' = 0
    /\ ppc' = "done"
    /\ UNCHANGED <<worldVars, indexVars, histVars, args, rows, rowsTodo,
                   date_before_dt, date_after_dt, growth_data, all_directories,
                   sorted_keys, sorted_directories, periodic_data,
                   cumulative_data, kept, pfault, praised>>

\* lines 199-210, 216-218: import matplotlib raises ImportError
PlotFallback ==
    /\ ppc = "output"
    /\ ~renderer
    /\ printed' = printed
         \o << Message("matplotlib_not_installed"), Message("cumulative_totals") >>
         \o LinesOfTotals("cumulative", cumulative_data, sorted_keys, sorted_directories)
         \o << Message("periodic_totals") >>
         \o LinesOfTotals("periodic", periodic_data, sorted_keys, sorted_directories)
    /\ pconn' = "closed"
    /\ pexit' = 0
    /\ ppc' = "done"
    /\ UNCHANGED <<worldVars, indexVars, histVars, args, rows, rowsTodo,
                   date_before_dt, date_after_dt, growth_data, all_directories,
                   sorted_keys, sorted_directories, periodic_data,
                   cumulative_data, charts, kept, pfault, praised>>

NextPlot ==
    \/ PlotNoDatabase
    \/ PlotConnectFails
    \/ PlotQuery
    \/ PlotValidate
    \/ \E r \in rowsTodo : PlotRow(r)
    \/ PlotSeries
    \/ PlotCharts
    \/ PlotFallback

SpecPlot == InitPlot /\ [][NextPlot]_vars

-----------------------------------------------------------------------------
(* Properties.                                                             *)

\* the extensions of the model's paths that are image or video extensions,
\* whatever their case
MediaPath(p) == p.ext \in {".jpg", ".JPG", ".mov", ".MOV", ".mp4", ".MP4"}

Range(seq) == {seq[i] : i \in DOMAIN seq}

RECURSIVE SumSizes(_)
SumSizes(S) ==
    IF S = {} THEN 0
    ELSE LET r == CHOOSE x \in S : TRUE IN r.file_size + SumSizes(S \ {r})

\* ---- C1 ------------------------------------------------------------------

\* C1 as claimed: after a completed scan every file under the root with an
\* image or video extension (in any case) has exactly one catalog entry, and
\* no file with another extension has one.
C1_Completeness ==
    Completed =>
      \A p \in Files(fs) :
        IF MediaPath(p)
        THEN Cardinality(RowsOf(db, p)) = 1
        ELSE RowsOf(db, p) = {}

\* C1 amended: after a completed scan, a media file has exactly one entry if
\* its size could be read or it had an entry before the scan, and none if its
\* size could not be read and it had none; no other file has an entry.
C1_CompletenessOfReadFiles ==
    Completed =>
      \A p \in Files(fs) :
        /\ (MediaPath(p) /\ (fs[p].readable \/ p \in Keys(startDb)))
              => Cardinality(RowsOf(db, p)) = 1
        /\ (MediaPath(p) /\ ~fs[p].readable /\ p \notin Keys(startDb))
              => RowsOf(db, p) = {}
        /\ ~MediaPath(p) => RowsOf(db, p) = {}

\* a completed scan of a tree with an indexed upper-case media file, a media
\* file whose size cannot be read and that has no entry, and another file
C1_Witness ==
    /\ Completed
    /\ \E p \in Files(fs) : p.ext = ".JPG" /\ RowsOf(db, p) # {}
    /\ \E p \in Files(fs) : MediaPath(p) /\ ~fs[p].readable /\ RowsOf(db, p) = {}
    /\ \E p \in Files(fs) : ~MediaPath(p)

\* ---- C2 ------------------------------------------------------------------

\* C2: when one indexed file was removed after a completed scan and nothing
\* else changed, the next completed scan deletes that file's entry and no
\* other: the stored paths are those of before minus the removed one, and
\* every stored path is a file of the tree.
C2_PruningCorrectness ==
    (Completed /\ prevCompleted /\ change.kind = "remove"
       /\ change.path \in Keys(startDb)) =>
      /\ deleted_files = {change.path}
      /\ Keys(db) = Keys(startDb) \ {change.path}
      /\ Keys(db) \subseteq Files(fs)

\* a rescan after the removal of one of two indexed files
C2_Witness ==
    /\ Completed /\ prevCompleted /\ change.kind = "remove"
    /\ change.path \in Keys(startDb)
    /\ Cardinality(Keys(startDb)) >= 2
    /\ Keys(db) # {}
    /\ change.path \notin Keys(db)

\* ---- C3 ------------------------------------------------------------------

\* C3: when the tree did not change between two consecutive completed scans,
\* the rows after the second scan are the rows after the first, and the
\* second scan deletes nothing.
C3_Idempotence ==
    (Completed /\ prevCompleted /\ change.kind = "none") =>
      /\ db = startDb
      /\ deleted_files = {}

\* a second completed scan of an unchanged tree that rewrote a row
C3_Witness ==
    /\ Completed /\ prevCompleted /\ change.kind = "none"
    /\ runs >= 2
    /\ count >= 1
    /\ db # {}

\* ---- C4 ------------------------------------------------------------------

\* C4: when opening the catalog or a commit fails, main reports the failure
\* and ends cleanly: no exception escapes it, the cleanup included.
C4_StoreFailureHandled ==
    (pc = "done" /\ fault \in {"connect", "commit"}) =>
      /\ "sqlite_error" \in reported
      /\ raised = "none"
      /\ exit_code = 0

\* ---- C9 ------------------------------------------------------------------

\* C9: a media file whose size cannot be read leaves the catalog as it was
\* for its path (no row written, an old row kept with its size and date and
\* not pruned), is not counted, and does not stop the scan: every other
\* media file visited is counted.
C9_SizeFailureIsolated ==
    /\ conn = "open" =>
         \A p \in skipped : RowsOf(view, p) = RowsOf(startDb, p)
    /\ Completed =>
         \A p \in skipped : RowsOf(db, p) = RowsOf(startDb, p)
    /\ (pc \in {"walk", "prune", "except", "finally", "done"}
          /\ conn # "unbound" /\ fault \notin {"connect", "execute"}) =>
         /\ skipped = {p \in Files(fs) \ todo : MediaPath(p) /\ ~fs[p].readable}
         /\ count = Cardinality({p \in Files(fs) \ todo :
                                   MediaPath(p) /\ fs[p].readable})
    /\ Completed => todo = {}

\* a completed scan that indexed a file and skipped an unreadable one whose
\* old row is still there
C9_Witness ==
    /\ Completed
    /\ count >= 1
    /\ \E p \in skipped : RowsOf(startDb, p) # {} /\ RowsOf(db, p) = RowsOf(startDb, p)

\* ---- C10 -----------------------------------------------------------------

\* C10: during the walk a commit follows every 100th upsert and one more
\* ends the walk; nothing is deleted before that commit; at any point at
\* most 100 upserts are uncommitted (pending, which an interruption keeps as
\* the number lost), every durable row is an old row or an upsert of this
\* scan, and a deletion is durable only when every upsert of the scan is.
C10_BoundedUncommittedWork ==
    /\ pc = "walk" => pending = count % 100
    /\ pc = "prune" => (pending = 0 /\ db = view)
    /\ pending <= 100
    /\ pc # "killed" =>
         /\ Cardinality(upserted \ db) <= 100
         /\ db \subseteq (startDb \cup upserted)
         /\ (Keys(startDb) \ Keys(db) # {}) => upserted \subseteq db
    /\ pc \in {"walk", "prune"} => Keys(startDb) \subseteq Keys(view)

\* the scan is interrupted after its first periodic commit, losing upserts
C10_Witness ==
    /\ pc = "killed"
    /\ commits >= 1
    /\ count > 100
    /\ pending > 0
    /\ Cardinality(db) >= 100

\* ---- C5 ------------------------------------------------------------------

\* a YYYY-MM-DD date
IsoDate(a) ==
    /\ a.shape = "date" /\ a.sep = "-" /\ a.tail = "none"
    /\ a.mo \in 1..12 /\ a.d \in 1..31

InvalidGiven(a) == a # None /\ ~IsoDate(a)

\* C5: whatever the catalog holds, a --date-before or --date-after that is
\* not a YYYY-MM-DD date makes main report it and exit non-zero, before any
\* aggregation or output.
C5_InvalidFilterDateRejected ==
    (/\ ppc = "done" /\ root_is_dir /\ pfault = "none"
     /\ (InvalidGiven(args.date_before) \/ InvalidGiven(args.date_after))) =>
      /\ pexit = 1
      /\ \E i \in DOMAIN printed :
            printed[i] \in {Message("invalid_date_before"),
                            Message("invalid_date_after")}
      /\ kept = {}
      /\ charts = <<>>
      /\ \A i \in DOMAIN printed : printed[i].kind # "line"

\* ---- C6 ------------------------------------------------------------------

\* the instant a valid filter date names (midnight of its day)
BoundOf(a) == [shape |-> "datetime", y |-> a.y, mo |-> a.mo, d |-> a.d, h |-> 0]

ValidArgs ==
    /\ args.date_before = None \/ IsoDate(args.date_before)
    /\ args.date_after = None \/ IsoDate(args.date_after)

LoopDone == ppc = "output" \/ (ppc = "done" /\ pexit = 0 /\ rows # {})

\* C6: a row contributes to the aggregation exactly when its date parses,
\* it is strictly earlier than date_before (if given) and strictly later
\* than date_after (if given).
C6_FilterBoundsExclusive ==
    (LoopDone /\ ValidArgs) =>
      /\ kept = {r \in rows :
                  LET dt == parse_date(r.date_taken) IN
                  /\ dt # None
                  /\ (args.date_before = None
                        \/ DtLess(dt, BoundOf(args.date_before)))
                  /\ (args.date_after = None
                        \/ DtLess(BoundOf(args.date_after), dt))}
      /\ SumSizes(kept) =
           SumSizes({[file_path |-> kd, file_size |-> growth_data[kd[1]][kd[2]]] :
                       kd \in {x \in (DOMAIN growth_data) \X all_directories :
                                 x[2] \in DOMAIN growth_data[x[1]]}})

\* with date_after given, a row dated at that very instant is left out and
\* a later row is kept
C6_Witness ==
    /\ LoopDone
    /\ args.date_after = Boundary
    /\ args.date_before = None
    /\ \E r \in rows \ kept : parse_date(r.date_taken) = BoundOf(Boundary)
    /\ kept # {}

\* ---- C7 ------------------------------------------------------------------

BucketOf(r) ==
    LET dt == parse_date(r.date_taken) IN
    IF args.group_by = "year" THEN <<dt.y>> ELSE <<dt.y, dt.mo>>

GroupOf(r) ==
    IF ~args.group_dirs THEN "Total"
    ELSE IF r.file_path.dir = "." THEN "Root" ELSE r.file_path.dir

RECURSIVE SumNums(_, _)
SumNums(series, i) ==
    IF i = 0 THEN 0 ELSE series[i].num + SumNums(series, i - 1)

SeriesBuilt == ppc = "output" \/ (ppc = "done" /\ sorted_keys # <<>>)

\* C7: the keys are the buckets of the retained rows in ascending order;
\* for every group and every key, the periodic series holds the summed size
\* of the retained rows of that bucket and group (zero when there is none),
\* in megabytes, and the cumulative series holds the running sum of the
\* periodic series of that group; it never decreases.
C7_SeriesShape ==
    SeriesBuilt =>
      LET groups  == {GroupOf(r) : r \in kept}
          buckets == {BucketOf(r) : r \in kept}
          n       == Len(sorted_keys)
      IN
      /\ Range(sorted_keys) = buckets
      /\ n = Cardinality(buckets)
      /\ \A i \in 1..n : \A j \in 1..n : i < j => KeyLess(sorted_keys[i], sorted_keys[j])
      /\ Range(sorted_directories) = groups
      /\ Len(sorted_directories) = Cardinality(groups)
      /\ DOMAIN periodic_data = groups
      /\ DOMAIN cumulative_data = groups
      /\ \A g \in groups :
           /\ Len(periodic_data[g]) = n
           /\ Len(cumulative_data[g]) = n
           /\ \A i \in 1..n :
                /\ periodic_data[g][i].den = 1048576
                /\ cumulative_data[g][i].den = 1048576
                /\ periodic_data[g][i].num =
                     SumSizes({r \in kept : BucketOf(r) = sorted_keys[i]
                                            /\ GroupOf(r) = g})
                /\ cumulative_data[g][i].num = SumNums(periodic_data[g], i)
                /\ i > 1 => cumulative_data[g][i].num >= cumulative_data[g][i - 1].num

\* two groups over two buckets, one combination missing
C7_Witness ==
    /\ ppc = "output"
    /\ Len(sorted_keys) >= 2
    /\ Len(sorted_directories) >= 2
    /\ \E g \in DOMAIN periodic_data :
         /\ periodic_data[g][1].num > 0
         /\ periodic_data[g][2].num > 0
         /\ cumulative_data[g][2].num > periodic_data[g][2].num
    /\ \E g \in DOMAIN periodic_data : \E i \in 1..Len(sorted_keys) :
         periodic_data[g][i].num = 0

\* ---- C8 ------------------------------------------------------------------

FellBack == ppc = "done" /\ ~renderer /\ sorted_keys # <<>>

DataLines == SelectSeq(printed, LAMBDA l : l.kind = "line")

\* the lines of one view with every group's series printed on its own
RECURSIVE LinesPerGroup(_, _, _, _)
LinesPerGroup(what, data, keys, dirs) ==
    IF dirs = <<>> THEN <<>>
    ELSE [i \in 1..Len(keys) |-> Line(what, keys[i], Fmt2(data[Head(dirs)][i].num))]
         \o LinesPerGroup(what, data, keys, Tail(dirs))

\* C8 as claimed: without a renderer the series the chart would get are
\* printed, one line per bucket for each view and, with directory grouping,
\* for each group on its own.
C8_FallbackPrintsEachGroup ==
    FellBack =>
      DataLines =
        LinesPerGroup("cumulative", cumulative_data, sorted_keys, sorted_directories)
        \o LinesPerGroup("periodic", periodic_data, sorted_keys, sorted_directories)

\* C8 amended: without a renderer main prints, for the cumulative and then
\* for the periodic view, one line per bucket whose value is the size of all
\* retained rows up to (resp. of) that bucket, all groups added up, in MB to
\* two decimals; without directory grouping these are the values of the
\* chart's only series.
C8_FallbackPrintsTotals ==
    FellBack =>
      LET n == Len(sorted_keys)
          upTo(i) == {r \in kept : BucketOf(r) = sorted_keys[i]
                                   \/ KeyLess(BucketOf(r), sorted_keys[i])}
          at(i)   == {r \in kept : BucketOf(r) = sorted_keys[i]}
      IN
      /\ Len(DataLines) = 2 * n
      /\ \A i \in 1..n :
           /\ DataLines[i] = Line("cumulative", sorted_keys[i], Fmt2(SumSizes(upTo(i))))
           /\ DataLines[n + i] = Line("periodic", sorted_keys[i], Fmt2(SumSizes(at(i))))
      /\ ~args.group_dirs =>
           \A i \in 1..n :
             /\ DataLines[i].value = Fmt2(cumulative_data["Total"][i].num)
             /\ DataLines[n + i].value = Fmt2(periodic_data["Total"][i].num)

\* the fallback ran with directory grouping on two groups and two buckets
C8_Witness ==
    /\ FellBack
    /\ args.group_dirs
    /\ Len(sorted_directories) >= 2
    /\ Len(sorted_keys) >= 2
    /\ Len(DataLines) = 4

====
